---------------------------- MODULE Spec2Model ----------------------------
(***************************************************************************)
(* Opportunity Risk Score (ORS) calculator, src/app.py.                    *)
(*                                                                         *)
(* The script reads fifteen sidebar widgets (lines 11-51) and then runs a  *)
(* straight-line calculation (lines 54-189): base risk by deal type, risk  *)
(* adders and clamp, ACV multiplier, overrides, risk tier, approvers.      *)
(* One run of the script is modelled: Init is the state after the widgets  *)
(* have been read, and there is one action per section of the calculation. *)
(*                                                                         *)
(* Number representation.                                                  *)
(*  - discount is the slider's integer percentage (line 37); the script    *)
(*    compares discount / 100.0 with decimal literals.  p / 100.0 and the  *)
(*    literal 0.pp are the same double (both are the correctly rounded     *)
(*    value of one rational), so each comparison is the comparison of the  *)
(*    percentages.                                                         *)
(*  - multiplier, pre_override and final_ors are floats in the script;     *)
(*    here they are exact numbers in tenths (13 is 1.3, 585 is 58.5).      *)
(*    For every base_ors in 0..100 and every multiplier the double product *)
(*    compares with 30, 50, 60, 95 and 100 as the exact product does.      *)
(*  - the Downsell ratio of line 74 is computed with exact fractions       *)
(*    <<numerator, denominator>>; a division whose divisor is zero raises  *)
(*    ZeroDivisionError, as Python's does.                                 *)
(***************************************************************************)
EXTENDS Integers, FiniteSets, Sequences, TLC

VARIABLES
    deal_type,          \* line 11
    revenue_types,      \* line 16
    acv,                \* line 24 (current_acv) or line 28 (acv)
    growth_acv,         \* lines 29-31
    discount,           \* line 37, the slider value in percent
    tcv_term,           \* line 38
    project_duration,   \* line 39
    ps_value,           \* line 40
    payment_days,       \* line 41
    strategic,          \* line 45
    min_term_met,       \* line 46
    bundle_compat,      \* line 47
    non_standard,       \* line 48
    break_no_penalty,   \* line 49
    customer_health,    \* line 51
    pc,                 \* the section of the script that runs next
    base_ors,           \* line 54
    multiplier,         \* lines 136-145, in tenths
    pre_override,       \* line 147, in tenths
    final_ors,          \* lines 150-155, in tenths
    tier,               \* lines 166-174
    approvers           \* line 179-189, as the set of line 192

inputs == <<deal_type, revenue_types, acv, growth_acv, discount, tcv_term,
            project_duration, ps_value, payment_days, strategic, min_term_met,
            bundle_compat, non_standard, break_no_penalty, customer_health>>

vars == <<inputs, pc, base_ors, multiplier, pre_override, final_ors, tier,
          approvers>>

\* The widget values of the current run as one record.
Widgets ==
    [deal_type |-> deal_type, revenue_types |-> revenue_types, acv |-> acv,
     growth_acv |-> growth_acv, discount |-> discount, tcv_term |-> tcv_term,
     project_duration |-> project_duration, ps_value |-> ps_value,
     payment_days |-> payment_days, strategic |-> strategic,
     min_term_met |-> min_term_met, bundle_compat |-> bundle_compat,
     non_standard |-> non_standard, break_no_penalty |-> break_no_penalty,
     customer_health |-> customer_health]

Min(a, b) == IF a <= b THEN a ELSE b
Max(a, b) == IF a >= b THEN a ELSE b

-----------------------------------------------------------------------------
(* Widget domains *)

DealTypes == {"Net New", "Upsell", "Downsell", "Cross-Sell", "Cancellation"}

RevenueTypes == {"Time & Material", "Project", "License", "Managed Service"}

PaymentTerms == {30, 45, 60, 90}

\* Monetary amounts (number_input, min_value=0, lines 24, 28, 31, 40) have no
\* upper limit.  The script only compares them with thresholds, so they are
\* sampled at zero, at each threshold (the largest amount of its range) and at
\* 1..MoneySlack above the last threshold.
MoneySlack == 1

AcvThresholds == {50000, 150000, 500000, 1000000}

AcvValues == {0} \cup AcvThresholds \cup {1000000 + e : e \in 1..MoneySlack}

PsValues == {75000, 75001}

\* The discount slider has 0..100 (line 37).  The script compares it with 10,
\* 15, 20, 25, 50 and 100, which cut the slider into the ranges 0..9, 10..15,
\* 16..20, 21..25, 26..50, 51..99 and 100: the ends of the inner ranges, and
\* 0, 51 and 100.
DiscountValues == {0, 10, 15, 16, 20, 21, 25, 26, 50, 51, 100}

-----------------------------------------------------------------------------
(* Lines 22-35: the ACV figures *)

AcvForBase(w) == w.acv

\* Line 32 assigning acv, as line 34 does.
AcvForMultiplierAlwaysAcv(w) == w.acv

AcvForMultiplier(w) ==
    IF w.deal_type = "Upsell" THEN w.growth_acv ELSE w.acv

-----------------------------------------------------------------------------
(* Exact fractions <<n, d>>, d # 0, for line 74 *)

FracDiv(x, y) == <<x[1] * y[2], x[2] * y[1]>>

FracIsZero(x) == x[1] = 0

\* x < 1/2, for a fraction with a positive denominator
FracLessThanHalf(x) == 2 * x[1] < x[2]

\* Line 74, the divisor:  acv_for_base / (1 - discount_pct) if discount_pct < 1 else 1
DownsellDivisor(w) ==
    IF w.discount < 100
    THEN FracDiv(<<AcvForBase(w), 1>>, <<100 - w.discount, 100>>)
    ELSE <<1, 1>>

\* Line 74 raises ZeroDivisionError when the divisor is zero.
RaisesZeroDivision(w) ==
    w.deal_type = "Downsell" /\ FracIsZero(DownsellDivisor(w))

\* Line 74, the condition:  acv_for_base / divisor < 0.5
DownsellRatioLow(w) ==
    FracLessThanHalf(FracDiv(<<AcvForBase(w), 1>>, DownsellDivisor(w)))

-----------------------------------------------------------------------------
(* Lines 56-110: base risk by deal type *)

\* Lines 65-66 dropped: no +5 when the minimum term is met.
CancellationBaseNoTermMetAdder(w) ==
    80 + (IF w.customer_health < 50 THEN 10 ELSE 0)
       + (IF w.strategic THEN 15 ELSE 0)
       + (IF ~w.min_term_met THEN 20 ELSE 0)

CancellationBase(w) ==
    80 + (IF w.customer_health < 50 THEN 10 ELSE 0)
       + (IF w.strategic THEN 15 ELSE 0)
       + (IF ~w.min_term_met THEN 20 ELSE 5)

DownsellBase(w) ==
    40 + (IF w.discount < -25 THEN 30 ELSE 0)
       + (IF w.discount > 25 THEN 30 ELSE 0)
       + (IF DownsellRatioLow(w) THEN 20 ELSE 0)
       + (IF "License" \in w.revenue_types \/ "Managed Service" \in w.revenue_types
          THEN 15 ELSE 5)

UpsellBase(w) ==
    20 + (IF "License" \in w.revenue_types
          THEN IF w.discount > 50 THEN 25
               ELSE IF w.discount > 15 THEN 10 ELSE 0
          ELSE 0)
       + (IF "Time & Material" \in w.revenue_types /\ w.discount > 20
          THEN 10 ELSE 0)

CrossSellBase(w) ==
    25 + 15
       + (IF Cardinality(w.revenue_types) > 1 THEN 10 ELSE 0)
       + (IF ~w.bundle_compat THEN 20 ELSE 0)
       + (IF AcvForBase(w) > 150000 THEN 25
          ELSE IF AcvForBase(w) > 50000 THEN 10 ELSE 0)

NetNewBase(w) ==
    35 + (IF Cardinality(w.revenue_types) > 1 THEN 15 ELSE 0)
       + (IF "Project" \in w.revenue_types THEN 10 ELSE 0)
       + (IF AcvForBase(w) > 500000 THEN 30
          ELSE IF AcvForBase(w) > 150000 THEN 15 ELSE 0)
       + (IF ~w.bundle_compat THEN 25 ELSE 0)

BaseRisk(w) ==
    CASE w.deal_type = "Cancellation" -> CancellationBase(w)
      [] w.deal_type = "Downsell"     -> DownsellBase(w)
      [] w.deal_type = "Upsell"       -> UpsellBase(w)
      [] w.deal_type = "Cross-Sell"   -> CrossSellBase(w)
      [] w.deal_type = "Net New"      -> NetNewBase(w)
      [] OTHER                        -> 0

-----------------------------------------------------------------------------
(* Lines 112-133: risk adders and clamp *)

\* Lines 116 and 118 with their values exchanged.
DiscRiskSwapped(w) ==
    IF w.discount < 10 THEN 0
    ELSE IF w.discount <= 20 THEN 20 ELSE 10

DiscRisk(w) ==
    IF w.discount < 10 THEN 0
    ELSE IF w.discount <= 20 THEN 10 ELSE 20

TermRisk(w) == IF w.deal_type = "Net New" /\ w.tcv_term < 3 THEN 20 ELSE 0

ProjRisk(w) ==
    IF "Project" \in w.revenue_types /\ w.project_duration > 12 THEN 15 ELSE 0

PsRisk(w) == IF w.ps_value > 75000 THEN 10 ELSE 0

PayRisk(w) ==
    IF w.payment_days = 45 THEN 5
    ELSE IF w.payment_days = 60 THEN 10
    ELSE IF w.payment_days >= 90 THEN 20 ELSE 0

RiskAdders(w) == DiscRisk(w) + TermRisk(w) + ProjRisk(w) + PsRisk(w) + PayRisk(w)

\* Line 133 without its min(100, ...).
ClampNoCeiling(score) == Max(0, score)

\* Line 133
Clamp(score) == Min(100, Max(0, score))

-----------------------------------------------------------------------------
(* Lines 135-147: ACV multiplier, in tenths *)

Multiplier(amount) ==
    IF amount <= 50000 THEN 8
    ELSE IF amount <= 150000 THEN 10
    ELSE IF amount <= 500000 THEN 13
    ELSE IF amount <= 1000000 THEN 16
    ELSE 20

\* Line 147: min(100, base_ors * multiplier), in tenths
PreOverride(base, mult) == Min(1000, base * mult)

-----------------------------------------------------------------------------
(* Lines 149-155: overrides, scores in tenths *)

\* Line 152 with min for max.
NonStandardCeiling(w, score) ==
    IF w.non_standard THEN Min(score, 500) ELSE score

NonStandardOverride(w, score) ==
    IF w.non_standard THEN Max(score, 500) ELSE score

\* Line 154 as a floor, max(final_ors, 95), like line 152.
BreakClauseFloor(w, score) ==
    IF w.break_no_penalty THEN Max(score, 950) ELSE score

BreakClauseOverride(w, score) ==
    IF w.break_no_penalty THEN 950 ELSE score

CapOverride(score) == Min(1000, score)

\* The values final_ors takes at lines 150, 152, 154 and 155.
OverrideSteps(w, pre) ==
    LET s1 == pre
        s2 == NonStandardOverride(w, s1)
        s3 == BreakClauseOverride(w, s2)
        s4 == CapOverride(s3)
    IN  <<s1, s2, s3, s4>>

-----------------------------------------------------------------------------
(* Lines 165-174: risk tier; lines 178-189: approvers *)

\* Line 166 with < for <=.
RiskTierStrict(score) ==
    IF score < 300 THEN "Low"
    ELSE IF score <= 600 THEN "Medium"
    ELSE "High"

RiskTier(score) ==
    IF score <= 300 THEN "Low"
    ELSE IF score <= 600 THEN "Medium"
    ELSE "High"

\* Line 184 without its "or break_no_penalty".
ApproversLegalByLicenseOnly(w, score) ==
    (IF score > 300 THEN {"Sales Ops"} ELSE {})
    \cup (IF score > 600
          THEN {"RevOps", "Finance"}
               \cup (IF "License" \in w.revenue_types THEN {"Legal"} ELSE {})
               \cup (IF "Project" \in w.revenue_types
                     THEN {"Delivery Lead"} ELSE {})
          ELSE {})
    \cup (IF w.deal_type \in {"Downsell", "Cancellation"} THEN {"CSM"} ELSE {})

Approvers(w, score) ==
    (IF score > 300 THEN {"Sales Ops"} ELSE {})
    \cup (IF score > 600
          THEN {"RevOps", "Finance"}
               \cup (IF "License" \in w.revenue_types \/ w.break_no_penalty
                     THEN {"Legal"} ELSE {})
               \cup (IF "Project" \in w.revenue_types
                     THEN {"Delivery Lead"} ELSE {})
          ELSE {})
    \cup (IF w.deal_type \in {"Downsell", "Cancellation"} THEN {"CSM"} ELSE {})

-----------------------------------------------------------------------------
(* Lines 54-189 as one function of the widget values, for a run in which   *)
(* line 74 does not raise.                                                  *)

BaseOrs(w) == Clamp(BaseRisk(w) + RiskAdders(w))

FinalOrs(w) ==
    OverrideSteps(w, PreOverride(BaseOrs(w),
                                 Multiplier(AcvForMultiplier(w))))[4]

\* What lines 161-192 display: base_ors, multiplier, final_ors, tier and
\* approvers.
Outcome(w) ==
    LET base  == BaseOrs(w)
        mult  == Multiplier(AcvForMultiplier(w))
        final == OverrideSteps(w, PreOverride(base, mult))[4]
    IN  <<base, mult, final, RiskTier(final), Approvers(w, final)>>

-----------------------------------------------------------------------------
(* One run of the script *)

\* The state once lines 11-51 have read the widgets.  A widget whose value no
\* line of the run uses stays at its default: acv is not used for an Upsell
\* (lines 80-88 and line 32), growth_acv is 0 unless the deal is an Upsell
\* (line 29), tcv_term is used for Net New only (line 120), strategic,
\* min_term_met and customer_health by the Cancellation branch only (lines
\* 59-66), bundle_compat by Cross-Sell and Net New only (lines 93, 109),
\* project_duration with a Project revenue type only (line 121).
Init ==
    /\ deal_type \in DealTypes
    /\ revenue_types \in SUBSET RevenueTypes
    /\ acv \in (IF deal_type = "Upsell" THEN {180000} ELSE AcvValues)
    /\ growth_acv \in (IF deal_type = "Upsell" THEN AcvValues ELSE {0})
    /\ discount \in DiscountValues
    /\ tcv_term \in (IF deal_type = "Net New" THEN {2, 3} ELSE {2})
    /\ project_duration \in
           (IF "Project" \in revenue_types THEN {12, 13} ELSE {14})
    /\ ps_value \in PsValues
    /\ payment_days \in PaymentTerms
    /\ strategic \in (IF deal_type = "Cancellation" THEN BOOLEAN ELSE {FALSE})
    /\ min_term_met \in (IF deal_type = "Cancellation" THEN BOOLEAN ELSE {TRUE})
    /\ bundle_compat \in
           (IF deal_type \in {"Cross-Sell", "Net New"} THEN BOOLEAN ELSE {FALSE})
    /\ non_standard \in BOOLEAN
    /\ break_no_penalty \in BOOLEAN
    /\ customer_health \in (IF deal_type = "Cancellation" THEN {49, 50} ELSE {65})
    /\ pc = "base"
    /\ base_ors = 0
    /\ multiplier = 0
    /\ pre_override = 0
    /\ final_ors = 0
    /\ tier = "none"
    /\ approvers = {}

\* Lines 56-110 when line 74 does not raise.
BaseScore ==
    /\ pc = "base"
    /\ ~RaisesZeroDivision(Widgets)
    /\ base_ors' = BaseRisk(Widgets)
    /\ pc' = "adders"
    /\ UNCHANGED <<inputs, multiplier, pre_override, final_ors, tier, approvers>>

\* Lines 67-74 when line 74 raises: the run ends with the exception, base_ors
\* holding what lines 68-73 gave it.
ZeroDivisionError ==
    /\ pc = "base"
    /\ RaisesZeroDivision(Widgets)
    /\ base_ors' = 40 + (IF discount < -25 THEN 30 ELSE 0)
                      + (IF discount > 25 THEN 30 ELSE 0)
    /\ pc' = "error"
    /\ UNCHANGED <<inputs, multiplier, pre_override, final_ors, tier, approvers>>

\* Lines 112-133
AddRiskAdders ==
    /\ pc = "adders"
    /\ base_ors' = Clamp(base_ors + RiskAdders(Widgets))
    /\ pc' = "multiplier"
    /\ UNCHANGED <<inputs, multiplier, pre_override, final_ors, tier, approvers>>

\* Lines 135-147
AcvMultiplier ==
    /\ pc = "multiplier"
    /\ multiplier' = Multiplier(AcvForMultiplier(Widgets))
    /\ pre_override' = PreOverride(base_ors, multiplier')
    /\ pc' = "overrides"
    /\ UNCHANGED <<inputs, base_ors, final_ors, tier, approvers>>

\* Lines 149-189: overrides, risk tier and approvers
OverrideAndClassify ==
    /\ pc = "overrides"
    /\ final_ors' = OverrideSteps(Widgets, pre_override)[4]
    /\ tier' = RiskTier(final_ors')
    /\ approvers' = Approvers(Widgets, final_ors')
    /\ pc' = "done"
    /\ UNCHANGED <<inputs, base_ors, multiplier, pre_override>>

Next ==
    \/ BaseScore
    \/ ZeroDivisionError
    \/ AddRiskAdders
    \/ AcvMultiplier
    \/ OverrideAndClassify

Spec == Init /\ [][Next]_vars

-----------------------------------------------------------------------------
(* Properties.  Scores are in tenths: 300 is 30, 585 is 58.5, 950 is 95.   *)

Done == pc = "done"

\* C1: in every completed evaluation 0 <= baseOrs <= 100 and
\* 0 <= finalOrs <= 100.
Thm_C1_ScoresInRange ==
    Done => /\ 0 <= base_ors /\ base_ors <= 100
            /\ 0 <= final_ors /\ final_ors <= 1000

\* A completed evaluation whose unclamped sum exceeds 100 and whose product
\* with the multiplier exceeds 100.
Wit_C1_ClampedAndCapped ==
    /\ Done
    /\ BaseRisk(Widgets) + RiskAdders(Widgets) > 100
    /\ base_ors * multiplier > 1000
    /\ base_ors = 100
    /\ final_ors = 1000

\* C2: the engine is total: no evaluation reaches an error outcome.
Cex_C2_NeverRaises == pc # "error"

\* C3: whenever breakClauseNoPenalty is set, finalOrs is exactly 95.
Thm_C3_BreakClauseForces95 ==
    (Done /\ break_no_penalty) => final_ors = 950

\* The break clause on a non-standard contract whose pre-override score is 100.
Wit_C3_BreakClauseOver100 ==
    /\ Done
    /\ break_no_penalty
    /\ non_standard
    /\ pre_override = 1000
    /\ final_ors = 950

\* C4 as stated: the score after each override step is >= the score before
\* it, hence finalOrs >= preOverride.
Cex_C4_EachOverrideRaises ==
    Done =>
        LET s == OverrideSteps(Widgets, pre_override)
        IN  /\ s[2] >= s[1]
            /\ s[3] >= s[2]
            /\ s[4] >= s[3]
            /\ final_ors >= pre_override

\* C4 amended: the non-standard floor and the cap never lower the score; the
\* break clause sets it to 95, which lowers it exactly when the score before
\* it is above 95; so finalOrs >= preOverride unless breakClauseNoPenalty is
\* set and preOverride > 95.
Thm_C4_OverridesRaiseExceptBreakClause ==
    Done =>
        LET s == OverrideSteps(Widgets, pre_override)
        IN  /\ s[1] = pre_override
            /\ s[2] >= s[1]
            /\ s[3] = (IF break_no_penalty THEN 950 ELSE s[2])
            /\ (s[3] < s[2]) = (break_no_penalty /\ s[2] > 950)
            /\ s[4] = s[3]
            /\ final_ors = s[4]
            /\ (final_ors < pre_override)
                   = (break_no_penalty /\ pre_override > 950)

\* The break clause lowering a pre-override score of 100 to 95.
Wit_C4_BreakClauseLowers ==
    /\ Done
    /\ break_no_penalty
    /\ ~non_standard
    /\ pre_override > 950
    /\ final_ors < pre_override

\* d2 is on the higher side of a risk-adder boundary that d1 is below.
CrossesBoundary(d1, d2) ==
    \/ d1 < 10 /\ 10 <= d2
    \/ d1 <= 20 /\ 20 < d2

\* C5: raising discountPct across a risk-adder boundary, all else fixed,
\* never decreases finalOrs.
Thm_C5_DiscountMonotone ==
    Done =>
        \A d2 \in DiscountValues :
            CrossesBoundary(discount, d2) =>
                FinalOrs([Widgets EXCEPT !.discount = d2]) >= final_ors

\* A Downsell at 20% whose score rises when the discount goes to 26%.
Wit_C5_DownsellCrossing ==
    /\ Done
    /\ deal_type = "Downsell"
    /\ discount = 20
    /\ FinalOrs([Widgets EXCEPT !.discount = 26]) > final_ors

\* C6: finalOrs <= 30 gives Low, 30 < finalOrs <= 60 gives Medium,
\* finalOrs > 60 gives High, non-integer scores included; 30 -> Low,
\* 31 -> Medium, 60 -> Medium, 61 -> High.
Thm_C6_TierBoundaries ==
    /\ Done =>
        /\ tier \in {"Low", "Medium", "High"}
        /\ (final_ors <= 300) = (tier = "Low")
        /\ (300 < final_ors /\ final_ors <= 600) = (tier = "Medium")
        /\ (final_ors > 600) = (tier = "High")
    /\ RiskTier(300) = "Low"
    /\ RiskTier(310) = "Medium"
    /\ RiskTier(600) = "Medium"
    /\ RiskTier(610) = "High"

\* The score 58.5 (45 * 1.3), classified Medium.
Wit_C6_NonIntegerScore ==
    /\ Done
    /\ final_ors = 585
    /\ tier = "Medium"

\* C7: the approver set is exactly the one derived from finalOrs, dealType,
\* revenueTypes and breakClauseNoPenalty.
Thm_C7_ApproverSet ==
    Done =>
        /\ ("Sales Ops" \in approvers) = (final_ors > 300)
        /\ ("RevOps" \in approvers) = (final_ors > 600)
        /\ ("Finance" \in approvers) = (final_ors > 600)
        /\ ("Legal" \in approvers) =
               (final_ors > 600
                /\ ("License" \in revenue_types \/ break_no_penalty))
        /\ ("Delivery Lead" \in approvers) =
               (final_ors > 600 /\ "Project" \in revenue_types)
        /\ ("CSM" \in approvers) = (deal_type \in {"Downsell", "Cancellation"})
        /\ approvers \subseteq {"Sales Ops", "RevOps", "Finance", "Legal",
                                "Delivery Lead", "CSM"}
        /\ (approvers = {}) =
               (final_ors <= 300
                /\ deal_type \notin {"Downsell", "Cancellation"})

\* Legal is required by the break clause alone, on a deal without a License.
Wit_C7_LegalByBreakClause ==
    /\ Done
    /\ break_no_penalty
    /\ "License" \notin revenue_types
    /\ "Project" \in revenue_types
    /\ deal_type = "Downsell"
    /\ approvers = {"Sales Ops", "RevOps", "Finance", "Legal",
                    "Delivery Lead", "CSM"}

\* C8: the multiplier is one of 0.8, 1.0, 1.3, 1.6, 2.0, the step function of
\* growthAcv for an Upsell and of acv otherwise; for an Upsell acv has no
\* effect on multiplier, finalOrs, tier or approvers.
Thm_C8_MultiplierSteps ==
    Done =>
        LET amount == IF deal_type = "Upsell" THEN growth_acv ELSE acv
        IN  /\ multiplier \in {8, 10, 13, 16, 20}
            /\ (amount <= 50000) = (multiplier = 8)
            /\ (50000 < amount /\ amount <= 150000) = (multiplier = 10)
            /\ (150000 < amount /\ amount <= 500000) = (multiplier = 13)
            /\ (500000 < amount /\ amount <= 1000000) = (multiplier = 16)
            /\ (amount > 1000000) = (multiplier = 20)
            /\ deal_type = "Upsell" =>
                   \A a \in AcvValues :
                       Outcome([Widgets EXCEPT !.acv = a])
                           = <<base_ors, multiplier, final_ors, tier, approvers>>

\* An Upsell whose acv is in the 1.3 range and whose growth ACV is in the 0.8
\* range gets 0.8.
Wit_C8_UpsellUsesGrowthAcv ==
    /\ Done
    /\ deal_type = "Upsell"
    /\ acv > 150000
    /\ growth_acv <= 50000
    /\ multiplier = 8

\* C9: for a Downsell with discountPct < 1 and any acv >= 0, the +20 of the
\* ratio is in the base score exactly when discountPct > 0.5.
Cex_C9_RatioIsDiscountOverHalf ==
    (deal_type = "Downsell" /\ discount < 100 /\ pc \in {"adders", "error"}) =>
        /\ pc = "adders"
        /\ base_ors = 40 + (IF discount > 25 THEN 30 ELSE 0)
                         + (IF discount > 50 THEN 20 ELSE 0)
                         + (IF "License" \in revenue_types
                               \/ "Managed Service" \in revenue_types
                            THEN 15 ELSE 5)

\* C10: a Cancellation has a pre-adder base of at least 85, finalOrs >= 68
\* (>= 85 when acv > 50,000), the High tier, and Sales Ops, RevOps, Finance
\* and CSM among its approvers.
Thm_C10_CancellationIsHigh ==
    deal_type = "Cancellation" =>
        /\ pc = "adders" => base_ors >= 85
        /\ Done =>
            /\ final_ors >= 680
            /\ acv > 50000 => final_ors >= 850
            /\ tier = "High"
            /\ {"Sales Ops", "RevOps", "Finance", "CSM"} \subseteq approvers

\* The least risky Cancellation: base 85, no adder, multiplier 0.8, score 68.
Wit_C10_LowestCancellation ==
    /\ Done
    /\ deal_type = "Cancellation"
    /\ base_ors = 85
    /\ multiplier = 8
    /\ final_ors = 680
    /\ tier = "High"

=============================================================================
